---- MODULE Spec2Model ----
(***************************************************************************)
(* A model of the PayOS client (src/src/index.ts) and of its signature     *)
(* utilities (src/src/utils).                                              *)
(*                                                                         *)
(* JavaScript values are tagged records.  A string is the sequence of its  *)
(* characters (one-character TLA+ strings), so that concatenation, key     *)
(* comparison and number formatting are computed and not assumed.  An      *)
(* ordinary object is the sequence of its own properties in the order      *)
(* Object.keys enumerates them.                                            *)
(***************************************************************************)
EXTENDS Integers, Sequences, FiniteSets

VARIABLES
    object,        \* encoder harness: the mapping handed to the encoder
    sortedData,    \* encoder harness: sortObjectByKey(object), or Undefined
    queryString,   \* encoder harness: objectToQueryString(sortedData), or Undefined
    clientId,      \* PayOS.clientId
    apiKey,        \* PayOS.apiKey
    checksumKey,   \* PayOS.checksumKey
    constructed,   \* the arguments the constructor was called with
    pc,            \* per call: "idle", "fetch" (awaiting fetch), "json" (awaiting response.json()), "done"
    op,            \* per call: the method invoked
    args,          \* per call: the arguments of the invocation
    wire,          \* per call: the HTTP requests the call has issued, in order
    transport,     \* per call: what the transport delivered to the call so far
    outcome        \* per call: the value returned or the error thrown

encoderVars == <<object, sortedData, queryString>>
clientVars == <<clientId, apiKey, checksumKey, constructed, pc, op, args, wire, transport, outcome>>
vars == <<object, sortedData, queryString, clientId, apiKey, checksumKey, constructed,
          pc, op, args, wire, transport, outcome>>

(***************************************************************************)
(* Bounds of the model.                                                    *)
(***************************************************************************)
MaxProps == 3      \* properties of a mapping in the encoder harness
MaxCalls == 2      \* calls in flight on one client in SpecConcurrent

(***************************************************************************)
(* Characters and strings.                                                 *)
(***************************************************************************)
Ascii ==
    <<" ", "!", "QUOTATION MARK", "#", "$", "%", "&", "'", "(", ")", "*", "+", ",", "-", ".", "/",
      "0", "1", "2", "3", "4", "5", "6", "7", "8", "9", ":", ";", "<", "=", ">", "?",
      "@", "A", "B", "C", "D", "E", "F", "G", "H", "I", "J", "K", "L", "M", "N", "O",
      "P", "Q", "R", "S", "T", "U", "V", "W", "X", "Y", "Z", "[", "REVERSE SOLIDUS", "]", "^", "_",
      "GRAVE ACCENT", "a", "b", "c", "d", "e", "f", "g", "h", "i", "j", "k", "l", "m", "n", "o",
      "p", "q", "r", "s", "t", "u", "v", "w", "x", "y", "z", "{", "|", "}", "~">>

\* The UTF-16 code unit of a printable ASCII character.  Ascii lists the
\* characters 32 to 126 in order; the three that a TLA+ string cannot hold
\* keep their place under their names.
CodeUnit(c) == 31 + CHOOSE i \in 1..Len(Ascii) : Ascii[i] = c

Digits == <<"0", "1", "2", "3", "4", "5", "6", "7", "8", "9">>

IsDigit(c) == \E i \in 1..10 : Digits[i] = c

DigitValue(c) == (CHOOSE i \in 1..10 : Digits[i] = c) - 1

\* a < b in the order of Array.prototype.sort() without a comparator:
\* code unit by code unit, a proper prefix first.
StrLess(a, b) ==
    \E i \in 1..(Len(a) + 1) :
        /\ \A j \in 1..(i - 1) : j <= Len(b) /\ a[j] = b[j]
        /\ \/ i = Len(a) + 1 /\ Len(b) >= i
           \/ i <= Len(a) /\ i <= Len(b) /\ CodeUnit(a[i]) < CodeUnit(b[i])

RECURSIVE Decimal(_)
\* The decimal digits of a natural number.
Decimal(n) ==
    IF n < 10 THEN <<Digits[n + 1]>>
    ELSE Decimal(n \div 10) \o <<Digits[(n % 10) + 1]>>

RECURSIVE ParseDecimal(_)
\* The number a sequence of digits denotes.
ParseDecimal(s) ==
    IF s = <<>> THEN 0
    ELSE 10 * ParseDecimal(SubSeq(s, 1, Len(s) - 1)) + DigitValue(s[Len(s)])

\* String.prototype.startsWith of a one-character string.
StartsWith(s, c) == Len(s) > 0 /\ s[1] = c

RECURSIVE Join(_, _)
\* Array.prototype.join: the strings of a sequence, separated by sep.
Join(strs, sep) ==
    IF strs = <<>> THEN <<>>
    ELSE IF Len(strs) = 1 THEN strs[1]
    ELSE strs[1] \o sep \o Join(Tail(strs), sep)

(***************************************************************************)
(* JavaScript values.                                                      *)
(***************************************************************************)
Undefined == [t |-> "undefined"]
Null == [t |-> "null"]
Str(s) == [t |-> "string", s |-> s]
\* A number is kept as twice its value, so that halves are representable.
Num(n) == [t |-> "number", x2 |-> 2 * n, nan |-> FALSE]
HalfNum(k) == [t |-> "number", x2 |-> k, nan |-> FALSE]
NaN == [t |-> "number", x2 |-> 0, nan |-> TRUE]
Obj(props) == [t |-> "object", props |-> props]
\* The hex digest of HMAC-SHA256: a string that is determined by the key and
\* the message and, the hash being collision resistant, differs for
\* different keys or messages.  Its 64 characters are not computed.
Digest(key, msg) == [t |-> "string", hmac |-> [key |-> key, msg |-> msg]]

IsDigest(v) == v.t = "string" /\ "hmac" \in DOMAIN v

\* ToBoolean.
Truthy(v) ==
    CASE v.t = "undefined" -> FALSE
      [] v.t = "null" -> FALSE
      [] v.t = "string" -> IF IsDigest(v) THEN TRUE ELSE Len(v.s) > 0
      [] v.t = "number" -> ~v.nan /\ v.x2 # 0
      [] OTHER -> TRUE

\* Number.isInteger.
IsInteger(v) == v.t = "number" /\ ~v.nan /\ v.x2 % 2 = 0

\* Number::toString of the numbers of the model.
NumberToString(v) ==
    IF v.nan THEN <<"N", "a", "N">>
    ELSE LET neg == v.x2 < 0
             abs2 == IF neg THEN 0 - v.x2 ELSE v.x2
         IN  (IF neg THEN <<"-">> ELSE <<>>)
             \o Decimal(abs2 \div 2)
             \o (IF abs2 % 2 = 1 THEN <<".", "5">> ELSE <<>>)

ErrorToString(e) ==
    IF e.message = <<>> THEN e.name ELSE e.name \o <<":", " ">> \o e.message

\* ToString, as a template literal, String() and new Error() apply it.
StringOf(v) ==
    CASE v.t = "undefined" -> <<"u", "n", "d", "e", "f", "i", "n", "e", "d">>
      [] v.t = "null" -> <<"n", "u", "l", "l">>
      [] v.t = "string" -> v.s
      [] v.t = "number" -> NumberToString(v)
      [] v.t = "error" -> ErrorToString(v)
      [] v.t = "object" ->
            <<"[", "o", "b", "j", "e", "c", "t", " ", "O", "b", "j", "e", "c", "t", "]">>

(***************************************************************************)
(* Ordinary objects: own string-keyed properties in the order of           *)
(* OrdinaryOwnPropertyKeys, array indices first in ascending numeric       *)
(* order, then the other keys in the order they were created.              *)
(***************************************************************************)
EmptyObject == Obj(<<>>)

\* A canonical numeric string that denotes an integer in 0 .. 2^32 - 2.  The
\* keys of the model have fewer than ten digits, which are all in range.
IsArrayIndex(k) ==
    /\ Len(k) > 0
    /\ Len(k) < 10
    /\ \A i \in 1..Len(k) : IsDigit(k[i])
    /\ (Len(k) = 1 \/ k[1] # "0")

\* Object.keys(o).
ObjectKeys(o) == [i \in 1..Len(o.props) |-> o.props[i].k]

HasOwn(o, k) == \E i \in 1..Len(o.props) : o.props[i].k = k

\* o[k]: the value of the property, undefined when there is none.
Get(o, k) ==
    IF HasOwn(o, k)
    THEN o.props[CHOOSE i \in 1..Len(o.props) : o.props[i].k = k].v
    ELSE Undefined

\* o[k] = v: an existing property keeps its place; a new array index goes
\* among the array indices, any other new key goes last.
Set(o, k, v) ==
    LET p == o.props
        n == Len(p)
        new == [k |-> k, v |-> v]
    IN  IF HasOwn(o, k)
        THEN Obj([i \in 1..n |-> IF p[i].k = k THEN new ELSE p[i]])
        ELSE IF IsArrayIndex(k)
        THEN LET before == Cardinality({i \in 1..n :
                                IsArrayIndex(p[i].k)
                                /\ ParseDecimal(p[i].k) < ParseDecimal(k)})
             IN  Obj(SubSeq(p, 1, before) \o <<new>> \o SubSeq(p, before + 1, n))
        ELSE Obj(Append(p, new))

RECURSIVE FromEntries(_, _)
\* The mapping that assigning the entries in the given order builds.
FromEntries(entries, acc) ==
    IF entries = <<>> THEN acc
    ELSE FromEntries(Tail(entries), Set(acc, entries[1].k, entries[1].v))

RECURSIVE Insert(_, _)
\* A sorted sequence of keys with one more key put in its place.
Insert(sorted, k) ==
    IF sorted = <<>> THEN <<k>>
    ELSE IF StrLess(k, sorted[1]) THEN <<k>> \o sorted
    ELSE <<sorted[1]>> \o Insert(Tail(sorted), k)

RECURSIVE Sort(_)
\* Array.prototype.sort() of an array of strings.
Sort(keys) ==
    IF keys = <<>> THEN <<>>
    ELSE Insert(Sort(SubSeq(keys, 1, Len(keys) - 1)), keys[Len(keys)])

RECURSIVE Reduce(_, _, _)
\* keys.reduce((acc, key) => { acc[key] = object[key]; return acc; }, acc)
Reduce(keys, o, acc) ==
    IF keys = <<>> THEN acc
    ELSE Reduce(Tail(keys), o, Set(acc, keys[1], Get(o, keys[1])))

sortObjectByKey(o) == Reduce(Sort(ObjectKeys(o)), o, EmptyObject)

objectToQueryString(o) ==
    Join([i \in 1..Len(o.props) |-> o.props[i].k \o <<"=">> \o StringOf(o.props[i].v)],
         <<"&">>)

(***************************************************************************)
(* src/src/constants.ts, and the property names and literals of index.ts.  *)
(***************************************************************************)
ERROR_MESSAGE_NO_DATA ==
    <<"N", "o", " ", "d", "a", "t", "a", ".">>

ERROR_MESSAGE_DATA_NOT_INTEGRITY ==
    <<"T", "h", "e", " ", "d", "a", "t", "a", " ", "i", "s", " ", "u", "n", "r", "e",
    "l", "i", "a", "b", "l", "e", " ", "b", "e", "c", "a", "u", "s", "e", " ", "t", "h",
    "e", " ", "s", "i", "g", "n", "a", "t", "u", "r", "e", " ", "o", "f", " ", "t", "h",
    "e", " ", "r", "e", "s", "p", "o", "n", "s", "e", " ", "d", "o", "e", "s", " ", "n",
    "o", "t", " ", "m", "a", "t", "c", "h", " ", "t", "h", "e", " ", "s", "i", "g", "n",
    "a", "t", "u", "r", "e", " ", "o", "f", " ", "t", "h", "e", " ", "d", "a", "t", "a",
    ".">>

ERROR_MESSAGE_WEBHOOK_URL_INVALID ==
    <<"W", "e", "b", "h", "o", "o", "k", " ", "U", "R", "L", " ", "i", "n", "v", "a",
    "l", "i", "d", ".">>

ERROR_MESSAGE_UNAUTHORIZED ==
    <<"U", "n", "a", "u", "t", "h", "o", "r", "i", "z", "e", "d", ".">>

ERROR_MESSAGE_INTERNAL_SERVER_ERROR ==
    <<"I", "n", "t", "e", "r", "n", "a", "l", " ", "S", "e", "r", "v", "e", "r", " ",
    "E", "r", "r", "o", "r", ".">>

ERROR_MESSAGE_INVALID_PARAMETER ==
    <<"I", "n", "v", "a", "l", "i", "d", " ", "P", "a", "r", "a", "m", "e", "t", "e",
    "r", ".">>

ERROR_CODE_INTERNAL_SERVER_ERROR ==
    <<"2", "0">>

ERROR_CODE_UNAUTHORIZED ==
    <<"4", "0", "1">>

PAYOS_API_URL ==
    <<"h", "t", "t", "p", "s", ":", "/", "/", "a", "p", "i", "-", "m", "e", "r", "c",
    "h", "a", "n", "t", ".", "p", "a", "y", "o", "s", ".", "v", "n">>

RequiredPrefix ==
    <<"T", "h", "e", " ", "f", "o", "l", "l", "o", "w", "i", "n", "g", " ", "f", "i",
    "e", "l", "d", "s", " ", "a", "r", "e", " ", "r", "e", "q", "u", "i", "r", "e", "d",
    ":", " ">>

K_amount ==
    <<"a", "m", "o", "u", "n", "t">>

K_cancelUrl ==
    <<"c", "a", "n", "c", "e", "l", "U", "r", "l">>

K_description ==
    <<"d", "e", "s", "c", "r", "i", "p", "t", "i", "o", "n">>

K_orderCode ==
    <<"o", "r", "d", "e", "r", "C", "o", "d", "e">>

K_returnUrl ==
    <<"r", "e", "t", "u", "r", "n", "U", "r", "l">>

K_signature ==
    <<"s", "i", "g", "n", "a", "t", "u", "r", "e">>

K_code ==
    <<"c", "o", "d", "e">>

K_desc ==
    <<"d", "e", "s", "c">>

K_data ==
    <<"d", "a", "t", "a">>

K_message ==
    <<"m", "e", "s", "s", "a", "g", "e">>

K_response ==
    <<"r", "e", "s", "p", "o", "n", "s", "e">>

K_status ==
    <<"s", "t", "a", "t", "u", "s">>

K_webhookUrl ==
    <<"w", "e", "b", "h", "o", "o", "k", "U", "r", "l">>

K_cancellationReason ==
    <<"c", "a", "n", "c", "e", "l", "l", "a", "t", "i", "o", "n", "R", "e", "a", "s",
    "o", "n">>

PathPaymentRequests ==
    <<"/", "v", "2", "/", "p", "a", "y", "m", "e", "n", "t", "-", "r", "e", "q", "u",
    "e", "s", "t", "s">>

PathConfirmWebhook ==
    <<"/", "c", "o", "n", "f", "i", "r", "m", "-", "w", "e", "b", "h", "o", "o", "k">>

PathCancel ==
    <<"/", "c", "a", "n", "c", "e", "l">>

(***************************************************************************)
(* Errors (src/src/error.ts) and property access on thrown values.         *)
(***************************************************************************)
\* The message an Error constructor stores for its argument.
ErrorMessage(message) == IF message = Undefined THEN <<>> ELSE StringOf(message)

\* new Error(message)
NewError(message) ==
    [t |-> "error", class |-> "Error", name |-> <<"E", "r", "r", "o", "r">>,
     message |-> ErrorMessage(message), code |-> Undefined,
     response |-> Undefined, status |-> Undefined]

\* new PayOSError({ code, message }): super(message); this.code = code.
PayOSError(code, message) ==
    [t |-> "error", class |-> "PayOSError", name |-> <<"E", "r", "r", "o", "r">>,
     message |-> ErrorMessage(message), code |-> code,
     response |-> Undefined, status |-> Undefined]

\* An error the runtime or the transport raises.  The text of a runtime
\* message is the engine's; nothing in the client reads it.
RuntimeError(class, name, message) ==
    [t |-> "error", class |-> class, name |-> name, message |-> message,
     code |-> Undefined, response |-> Undefined, status |-> Undefined]

TypeErrorName == <<"T", "y", "p", "e", "E", "r", "r", "o", "r">>

SyntaxErrorName == <<"S", "y", "n", "t", "a", "x", "E", "r", "r", "o", "r">>

NotAnObjectMessage ==
    <<"n", "o", "t", " ", "a", "n", " ", "o", "b", "j", "e", "c", "t">>

JSONParseMessage ==
    <<"J", "S", "O", "N", " ", "P", "a", "r", "s", "e", " ", "e", "r", "r", "o", "r">>

FetchFailedMessage ==
    <<"f", "e", "t", "c", "h", " ", "f", "a", "i", "l", "e", "d">>

\* v?.message, v?.response, v?.data, v?.status
Message(v) ==
    CASE v.t = "error" -> Str(v.message)
      [] v.t = "object" -> Get(v, K_message)
      [] OTHER -> Undefined

Response(v) ==
    CASE v.t = "error" -> v.response
      [] v.t = "object" -> Get(v, K_response)
      [] OTHER -> Undefined

Data(v) == IF v.t = "object" THEN Get(v, K_data) ELSE Undefined

Status(v) ==
    CASE v.t = "error" -> v.status
      [] v.t = "object" -> Get(v, K_status)
      [] OTHER -> Undefined

\* a === b for the primitives of the model (no two objects are compared).
StrictEquals(a, b) == a = b /\ ~(a.t = "number" /\ a.nan)

\* a == "00": a number is compared with the number the string denotes.
LooseEqualsDigits(a, digits) ==
    \/ a = Str(digits)
    \/ a.t = "number" /\ ~a.nan /\ a.x2 = 2 * ParseDecimal(digits)

Returned(v) == [kind |-> "return", value |-> v]
Thrown(e) == [kind |-> "throw", error |-> e]
Pending == [kind |-> "pending"]

(***************************************************************************)
(* src/src/utils/createSignature.ts                                        *)
(***************************************************************************)
createSignatureFromObject(data, key) ==
    IF ~Truthy(data) \/ Len(key.s) = 0 THEN Null
    ELSE Digest(key.s, objectToQueryString(sortObjectByKey(data)))

\* A request signer that signs the whole payload as the generic signer does.
createSignatureOfPaymentRequest_Generic(data, key) == createSignatureFromObject(data, key)



createSignatureOfPaymentRequest(data, key) ==
    IF ~Truthy(data) \/ Len(key.s) = 0 THEN Null
    ELSE Digest(key.s,
            K_amount \o <<"=">> \o StringOf(Get(data, K_amount))
            \o <<"&">> \o K_cancelUrl \o <<"=">> \o StringOf(Get(data, K_cancelUrl))
            \o <<"&">> \o K_description \o <<"=">> \o StringOf(Get(data, K_description))
            \o <<"&">> \o K_orderCode \o <<"=">> \o StringOf(Get(data, K_orderCode))
            \o <<"&">> \o K_returnUrl \o <<"=">> \o StringOf(Get(data, K_returnUrl)))

(***************************************************************************)
(* The steps of the methods of PayOS (src/src/index.ts) as functions of    *)
(* what they read.                                                         *)
(***************************************************************************)
requiredFields == <<K_amount, K_cancelUrl, K_description, K_orderCode, K_returnUrl>>

\* requiredFields.filter((key) => !paymentData[key])
keysError(paymentData) ==
    SelectSeq(requiredFields, LAMBDA key : ~Truthy(Get(paymentData, key)))

\* A validation that forgets the last required field.
PaymentDataRejected_WithoutReturnUrl(paymentData) ==
    \/ ~Truthy(paymentData)
    \/ \E i \in 1..4 : ~Truthy(Get(paymentData, requiredFields[i]))
\* The condition of the first statement of createPaymentLink.
PaymentDataRejected(paymentData) ==
    \/ ~Truthy(paymentData)
    \/ \E i \in 1..Len(requiredFields) : ~Truthy(Get(paymentData, requiredFields[i]))

\* What that statement throws: the filter reads a property of paymentData,
\* which raises a TypeError when paymentData is undefined or null.
PaymentDataError(paymentData) ==
    IF ~Truthy(paymentData)
    THEN RuntimeError("TypeError", TypeErrorName, NotAnObjectMessage)
    ELSE NewError(Str(RequiredPrefix \o Join(keysError(paymentData), <<",", " ">>)))

\* A validation that accepts every positive number.
OrderIdRejected_WithoutIntegerTest(orderId) ==
    \/ ~Truthy(orderId)
    \/ orderId.t = "number" /\ orderId.x2 <= 0
    \/ orderId.t = "string" /\ Len(orderId.s) = 0
\* The condition of the first statement of getPaymentLinkInformation and of
\* cancelPaymentLink.
OrderIdRejected(orderId) ==
    \/ ~Truthy(orderId)
    \/ orderId.t = "number" /\ (~IsInteger(orderId) \/ orderId.x2 <= 0)
    \/ orderId.t = "string" /\ Len(orderId.s) = 0

\* The condition of the first statement of confirmWebhook.
WebhookUrlRejected(webhookUrl) ==
    ~Truthy(webhookUrl) \/ Len(webhookUrl.s) = 0

\* { ...o }
Spread(o) == Reduce(ObjectKeys(o), o, EmptyObject)

\* JSON.stringify(o) of a flat object, as the value its text denotes: a
\* property whose value is undefined is left out, NaN is written null.
JSONStringify(o) ==
    LET kept == SelectSeq(o.props, LAMBDA p : p.v # Undefined)
    IN  [t |-> "json",
         props |-> [i \in 1..Len(kept) |->
                      IF kept[i].v = NaN THEN [k |-> kept[i].k, v |-> Null] ELSE kept[i]]]

Request(method, url, body, xClientId, xApiKey) ==
    [method |-> method, url |-> url, body |-> body,
     clientIdHeader |-> xClientId, apiKeyHeader |-> xApiKey]

createPaymentLinkRequest(paymentData, id, api, key) ==
    LET signature == createSignatureOfPaymentRequest(paymentData, key)
    IN  Request("POST", PAYOS_API_URL \o PathPaymentRequests,
                JSONStringify(Set(Spread(paymentData), K_signature, signature)),
                id, api)

getPaymentLinkInformationRequest(orderId, id, api) ==
    Request("GET", PAYOS_API_URL \o PathPaymentRequests \o <<"/">> \o StringOf(orderId),
            Undefined, id, api)

confirmWebhookRequest(webhookUrl, id, api) ==
    Request("POST", PAYOS_API_URL \o PathConfirmWebhook,
            JSONStringify(Obj(<<[k |-> K_webhookUrl, v |-> webhookUrl]>>)), id, api)

cancelPaymentLinkRequest(orderId, cancellationReason, id, api) ==
    Request("POST",
            PAYOS_API_URL \o PathPaymentRequests \o <<"/">> \o StringOf(orderId) \o PathCancel,
            IF Truthy(cancellationReason)
            THEN JSONStringify(Obj(<<[k |-> K_cancellationReason, v |-> cancellationReason]>>))
            ELSE Undefined,
            id, api)

\* The catch block of createPaymentLink, getPaymentLinkInformation and
\* cancelPaymentLink: whatever was thrown leaves as a new Error.
CatchAndWrap(error) ==
    LET errorData ==
            IF Truthy(Data(Response(error))) THEN Data(Response(error))
            ELSE IF Truthy(Response(error)) THEN Response(error)
            ELSE error
    IN  Thrown(NewError(IF Truthy(Message(errorData)) THEN Message(errorData)
                        ELSE errorData))

\* The body of the try block after the envelope is destructured; success is
\* the result of the test of code, and what is thrown is thrown inside try.
TryEnvelope(success, envelope, key) ==
    LET data == Get(envelope, K_data)
        signature == Get(envelope, K_signature)
    IN  IF success
        THEN IF ~StrictEquals(createSignatureFromObject(data, key), signature)
             THEN CatchAndWrap(NewError(Str(ERROR_MESSAGE_DATA_NOT_INTEGRITY)))
             ELSE IF Truthy(data) THEN Returned(data)
             ELSE CatchAndWrap(PayOSError(Get(envelope, K_code), Get(envelope, K_desc)))
        ELSE CatchAndWrap(PayOSError(Get(envelope, K_code), Get(envelope, K_desc)))

\* A body that is not JSON makes response.json() reject; the JSON value null
\* cannot be destructured.
NotJson == [t |-> "notjson"]

TryBody(strict, body, key) ==
    CASE body = NotJson ->
            CatchAndWrap(RuntimeError("SyntaxError", SyntaxErrorName, JSONParseMessage))
      [] body = Null ->
            CatchAndWrap(RuntimeError("TypeError", TypeErrorName, NotAnObjectMessage))
      [] OTHER ->
            TryEnvelope(IF strict THEN StrictEquals(Get(body, K_code), Str(<<"0", "0">>))
                        ELSE LooseEqualsDigits(Get(body, K_code), <<"0", "0">>),
                        body, key)

createPaymentLinkResponse(body, key) == TryBody(TRUE, body, key)

getPaymentLinkInformationResponse(body, key) == TryBody(FALSE, body, key)

cancelPaymentLinkResponse(body, key) == TryBody(FALSE, body, key)

\* The catch block of confirmWebhook.
confirmWebhookCatch(error) ==
    LET errorData ==
            IF Truthy(Data(Response(error))) THEN Data(Response(error))
            ELSE IF Truthy(Response(error)) THEN Response(error)
            ELSE error
        status == Status(errorData)
    IN  IF StrictEquals(status, Num(400))
        THEN Thrown(PayOSError(Str(ERROR_CODE_INTERNAL_SERVER_ERROR),
                               Str(ERROR_MESSAGE_WEBHOOK_URL_INVALID)))
        ELSE IF StrictEquals(status, Num(401))
        THEN Thrown(PayOSError(Str(ERROR_CODE_UNAUTHORIZED), Str(ERROR_MESSAGE_UNAUTHORIZED)))
        ELSE IF StartsWith(StringOf(status), "5")
        THEN Thrown(PayOSError(Str(ERROR_CODE_INTERNAL_SERVER_ERROR),
                               Str(ERROR_MESSAGE_INTERNAL_SERVER_ERROR)))
        ELSE Thrown(NewError(IF Truthy(Message(errorData)) THEN Message(errorData)
                             ELSE errorData))

verifyWebhookDataResult(webhookBody, key) ==
    LET data == Get(webhookBody, K_data)
        signature == Get(webhookBody, K_signature)
    IN  IF ~Truthy(data) THEN Thrown(NewError(Str(ERROR_MESSAGE_NO_DATA)))
        ELSE IF ~StrictEquals(createSignatureFromObject(data, key), signature)
        THEN Thrown(NewError(Str(ERROR_MESSAGE_DATA_NOT_INTEGRITY)))
        ELSE Returned(data)

(***************************************************************************)
(* The encoder harness: a mapping is built one assignment at a time and    *)
(* then sorted and encoded.                                                *)
(***************************************************************************)
EncoderKeys ==
    {<<"a">>, <<"b">>, <<"a", "b">>, <<"B">>, <<"9">>, <<"1", "0">>, <<"0", "1">>}

EncoderValues == {Str(<<"x">>), Num(7), Undefined}

EncoderIdle ==
    /\ object = EmptyObject
    /\ sortedData = Undefined
    /\ queryString = Undefined

ClientIdle ==
    /\ clientId = Undefined
    /\ apiKey = Undefined
    /\ checksumKey = Undefined
    /\ constructed = Undefined
    /\ pc = <<>>
    /\ op = <<>>
    /\ args = <<>>
    /\ wire = <<>>
    /\ transport = <<>>
    /\ outcome = <<>>

InitEncoder == EncoderIdle /\ ClientIdle

\* object[k] = v on a mapping that is not yet encoded.
Assign(k, v) ==
    /\ sortedData = Undefined
    /\ Len(object.props) < MaxProps
    /\ ~HasOwn(object, k)
    /\ object' = Set(object, k, v)
    /\ UNCHANGED <<sortedData, queryString>>
    /\ UNCHANGED clientVars

\* objectToQueryString(sortObjectByKey(object)), as createSignatureFromObject calls them.
Encode ==
    /\ sortedData = Undefined
    /\ sortedData' = sortObjectByKey(object)
    /\ queryString' = Str(objectToQueryString(sortObjectByKey(object)))
    /\ UNCHANGED object
    /\ UNCHANGED clientVars

NextEncoder ==
    \/ \E k \in EncoderKeys, v \in EncoderValues : Assign(k, v)
    \/ Encode

SpecEncoder == InitEncoder /\ [][NextEncoder]_vars

(***************************************************************************)
(* The client: the values its callers and the gateway supply.              *)
(***************************************************************************)
Prop(k, v) == [k |-> k, v |-> v]

\* An object literal: the properties whose value is given, in that order.
Literal(entries) ==
    FromEntries(SelectSeq(entries, LAMBDA p : p.v # Undefined), EmptyObject)

ClientIdValue == Str(<<"i", "d">>)
ApiKeyValue == Str(<<"a", "p", "i">>)
GatewayKey == Str(<<"k", "1">>)
OtherKey == Str(<<"k", "2">>)
EmptyKey == Str(<<>>)
ChecksumKeys == {EmptyKey, GatewayKey, OtherKey}

K_items == <<"i", "t", "e", "m", "s">>

RequiredValues ==
    <<Num(1000), Str(<<"c">>), Str(<<"d">>), Num(42), Str(<<"r">>)>>

\* The payment data that holds the required fields numbered in present.
PaymentDataWith(present) ==
    Literal([i \in 1..5 |->
                Prop(requiredFields[i], IF i \in present THEN RequiredValues[i] ELSE Undefined)])

FullPaymentData == PaymentDataWith(1..5)

\* The same fields written in another order, with fields the signature does
\* not cover.
ShuffledPaymentData ==
    Literal(<<Prop(K_returnUrl, RequiredValues[5]), Prop(K_items, Str(<<"i">>)),
              Prop(K_orderCode, RequiredValues[4]), Prop(K_signature, Str(<<"f", "f">>)),
              Prop(K_description, RequiredValues[3]), Prop(K_amount, RequiredValues[1]),
              Prop(K_cancelUrl, RequiredValues[2])>>)

FalsyPaymentData ==
    Set(Set(FullPaymentData, K_amount, Num(0)), K_description, Str(<<>>))

PaymentDataInputs ==
    {PaymentDataWith(present) : present \in SUBSET (1..5)}
        \cup {ShuffledPaymentData, FalsyPaymentData, Undefined}

OrderIdInputs ==
    {Num(42), Str(<<"a", "7">>), Num(0), Num(0 - 1), HalfNum(3), HalfNum(0 - 1), NaN,
     Str(<<>>), Undefined}

CancellationReasonInputs == {Undefined, Str(<<>>), Str(<<"x">>)}

WebhookUrlInputs == {Str(<<"h">>), Str(<<>>), Undefined}

PaidData ==
    Literal(<<Prop(K_status, Str(<<"P", "A", "I", "D">>)), Prop(K_orderCode, Num(42))>>)

OpenData ==
    Literal(<<Prop(K_orderCode, Num(42)), Prop(K_status, Str(<<"O", "P", "E", "N">>))>>)

\* Another mapping with the canonical encoding of PaidData: the encoder
\* escapes neither & nor =.
SplicedData ==
    Literal(<<Prop(K_orderCode,
                   Str(<<"4", "2", "&", "s", "t", "a", "t", "u", "s", "=", "P", "A", "I", "D">>))>>)

DataObjects == {PaidData, OpenData, SplicedData}

\* HMAC-SHA256 of the canonical encoding of data under key, as the gateway
\* and anyone who holds key compute it.
HmacOfCanonical(data, key) == Digest(key.s, objectToQueryString(sortObjectByKey(data)))

SignatureInputs ==
    {HmacOfCanonical(d, k) : d \in DataObjects, k \in ChecksumKeys}
        \cup {Null, Undefined, Str(<<"f", "f">>)}

CodeInputs == {Str(<<"0", "0">>), Str(<<"2", "0">>), Num(0), Undefined}

DescInputs == {Str(<<"d", "e", "s", "c">>), Undefined}

Envelope(code, desc, data, signature) ==
    Literal(<<Prop(K_code, code), Prop(K_desc, desc), Prop(K_data, data),
              Prop(K_signature, signature)>>)

BodyInputs ==
    {Envelope(code, desc, data, signature) :
        code \in CodeInputs, desc \in DescInputs,
        data \in DataObjects \cup {Undefined}, signature \in SignatureInputs}
        \cup {NotJson, Null}

WebhookBodyInputs ==
    {Literal(<<Prop(K_data, data), Prop(K_signature, signature)>>) :
        data \in DataObjects \cup {Undefined, Null}, signature \in SignatureInputs}

StatusInputs == {Num(200), Num(400), Num(401), Num(500)}

\* What a rejected fetch can carry: a network failure; and, for a transport
\* that rejects on an HTTP error status, the status on the error or on its
\* response, the shapes the catch blocks probe for.
NetworkError == RuntimeError("TypeError", TypeErrorName, FetchFailedMessage)

StatusError(status) == [NetworkError EXCEPT !.status = status]

ResponseError(status, data) ==
    [NetworkError EXCEPT !.response =
        Literal(<<Prop(K_status, status), Prop(K_data, data)>>)]

RejectionInputs ==
    {NetworkError}
        \cup {StatusError(status) : status \in StatusInputs \cup {Num(404)}}
        \cup {ResponseError(status, data) :
                status \in {Num(400), Num(503)},
                data \in {Undefined,
                          Envelope(Str(<<"2", "0">>), Str(<<"d", "e", "s", "c">>),
                                   Undefined, Undefined),
                          Literal(<<Prop(K_message, Str(<<"m">>))>>)}}

(***************************************************************************)
(* The client: one PayOS object and the calls made on it.  A call is at    *)
(* "idle" before it is made, at "fetch" and "json" while it awaits, and at *)
(* "done" when it has returned or thrown.                                  *)
(***************************************************************************)
\* new PayOS(id, api, key), and n calls yet to be made.
Constructor(id, api, key, n) ==
    /\ clientId = id
    /\ apiKey = api
    /\ checksumKey = key
    /\ constructed = [clientId |-> id, apiKey |-> api, checksumKey |-> key]
    /\ pc = [c \in 1..n |-> "idle"]
    /\ op = [c \in 1..n |-> "none"]
    /\ args = [c \in 1..n |-> <<>>]
    /\ wire = [c \in 1..n |-> <<>>]
    /\ transport = [c \in 1..n |-> <<>>]
    /\ outcome = [c \in 1..n |-> Pending]

Calls == DOMAIN pc

credentials == <<clientId, apiKey, checksumKey, constructed>>

\* The call begins: it is recorded with its arguments.
Begin(c, method, arguments) ==
    /\ pc[c] = "idle"
    /\ op' = [op EXCEPT ![c] = method]
    /\ args' = [args EXCEPT ![c] = arguments]

\* The call throws before it has awaited anything.
Reject(c, error) ==
    /\ pc' = [pc EXCEPT ![c] = "done"]
    /\ outcome' = [outcome EXCEPT ![c] = Thrown(error)]
    /\ UNCHANGED wire

\* The call hands a request to fetch and awaits it.
Fetch(c, request) ==
    /\ pc' = [pc EXCEPT ![c] = "fetch"]
    /\ wire' = [wire EXCEPT ![c] = Append(@, request)]
    /\ UNCHANGED outcome

\* The call ends.
Settle(c, result) ==
    /\ pc' = [pc EXCEPT ![c] = "done"]
    /\ outcome' = [outcome EXCEPT ![c] = result]

createPaymentLink(c, paymentData) ==
    /\ Begin(c, "createPaymentLink", <<paymentData>>)
    /\ IF PaymentDataRejected(paymentData)
       THEN Reject(c, PaymentDataError(paymentData))
       ELSE Fetch(c, createPaymentLinkRequest(paymentData, clientId, apiKey, checksumKey))
    /\ UNCHANGED <<transport, credentials, encoderVars>>

getPaymentLinkInformation(c, orderId) ==
    /\ Begin(c, "getPaymentLinkInformation", <<orderId>>)
    /\ IF OrderIdRejected(orderId)
       THEN Reject(c, NewError(Str(ERROR_MESSAGE_INVALID_PARAMETER)))
       ELSE Fetch(c, getPaymentLinkInformationRequest(orderId, clientId, apiKey))
    /\ UNCHANGED <<transport, credentials, encoderVars>>

confirmWebhook(c, webhookUrl) ==
    /\ Begin(c, "confirmWebhook", <<webhookUrl>>)
    /\ IF WebhookUrlRejected(webhookUrl)
       THEN Reject(c, NewError(Str(ERROR_MESSAGE_INVALID_PARAMETER)))
       ELSE Fetch(c, confirmWebhookRequest(webhookUrl, clientId, apiKey))
    /\ UNCHANGED <<transport, credentials, encoderVars>>

cancelPaymentLink(c, orderId, cancellationReason) ==
    /\ Begin(c, "cancelPaymentLink", <<orderId, cancellationReason>>)
    /\ IF OrderIdRejected(orderId)
       THEN Reject(c, NewError(Str(ERROR_MESSAGE_INVALID_PARAMETER)))
       ELSE Fetch(c, cancelPaymentLinkRequest(orderId, cancellationReason, clientId, apiKey))
    /\ UNCHANGED <<transport, credentials, encoderVars>>

verifyWebhookData(c, webhookBody) ==
    /\ Begin(c, "verifyWebhookData", <<webhookBody>>)
    /\ Settle(c, verifyWebhookDataResult(webhookBody, checksumKey))
    /\ UNCHANGED <<wire, transport, credentials, encoderVars>>

\* await fetch(...) resumes with a response, whatever its status:
\* confirmWebhook returns, the other methods call response.json().
FetchResolves(c, status) ==
    /\ pc[c] = "fetch"
    /\ transport' = [transport EXCEPT ![c] = Append(@, [kind |-> "response", status |-> status])]
    /\ IF op[c] = "confirmWebhook"
       THEN Settle(c, Returned(args[c][1]))
       ELSE pc' = [pc EXCEPT ![c] = "json"] /\ UNCHANGED outcome
    /\ UNCHANGED <<op, args, wire, credentials, encoderVars>>

\* A call that sends its request again when the transport fails.
FetchRejects_Retries(c, error) ==
    /\ pc[c] = "fetch"
    /\ Len(wire[c]) < 3
    /\ transport' = [transport EXCEPT ![c] = Append(@, [kind |-> "rejected", error |-> error])]
    /\ wire' = [wire EXCEPT ![c] = Append(@, wire[c][1])]
    /\ UNCHANGED <<pc, outcome, op, args, credentials, encoderVars>>

\* await fetch(...) resumes with an exception, which the catch block takes.
FetchRejects(c, error) ==
    /\ pc[c] = "fetch"
    /\ transport' = [transport EXCEPT ![c] = Append(@, [kind |-> "rejected", error |-> error])]
    /\ Settle(c, IF op[c] = "confirmWebhook" THEN confirmWebhookCatch(error)
                 ELSE CatchAndWrap(error))
    /\ UNCHANGED <<op, args, wire, credentials, encoderVars>>

\* A client that keeps the parsed body in a field that its calls share: a
\* call reads the body another call has already received.
JsonSettles_SharedBody(c, body) ==
    LET earlier == {d \in Calls : d # c /\ Len(transport[d]) = 2}
        shared == IF earlier = {} THEN body
                  ELSE transport[CHOOSE d \in earlier : TRUE][2].body
    IN  /\ pc[c] = "json"
        /\ transport' = [transport EXCEPT ![c] = Append(@, [kind |-> "body", body |-> body])]
        /\ Settle(c, TryBody(op[c] = "createPaymentLink", shared, checksumKey))
        /\ UNCHANGED <<op, args, wire, credentials, encoderVars>>

\* await response.json() resumes, and the rest of the try block runs.
JsonSettles(c, body) ==
    /\ pc[c] = "json"
    /\ transport' = [transport EXCEPT ![c] = Append(@, [kind |-> "body", body |-> body])]
    /\ Settle(c, CASE op[c] = "createPaymentLink" ->
                        createPaymentLinkResponse(body, checksumKey)
                   [] op[c] = "getPaymentLinkInformation" ->
                        getPaymentLinkInformationResponse(body, checksumKey)
                   [] op[c] = "cancelPaymentLink" ->
                        cancelPaymentLinkResponse(body, checksumKey))
    /\ UNCHANGED <<op, args, wire, credentials, encoderVars>>

Init ==
    /\ EncoderIdle
    /\ \E key \in ChecksumKeys : Constructor(ClientIdValue, ApiKeyValue, key, 1)

Next ==
    \/ \E c \in Calls, paymentData \in PaymentDataInputs : createPaymentLink(c, paymentData)
    \/ \E c \in Calls, orderId \in OrderIdInputs : getPaymentLinkInformation(c, orderId)
    \/ \E c \in Calls, webhookUrl \in WebhookUrlInputs : confirmWebhook(c, webhookUrl)
    \/ \E c \in Calls, orderId \in OrderIdInputs, reason \in CancellationReasonInputs :
          cancelPaymentLink(c, orderId, reason)
    \/ \E c \in Calls, webhookBody \in WebhookBodyInputs : verifyWebhookData(c, webhookBody)
    \/ \E c \in Calls, status \in StatusInputs : FetchResolves(c, status)
    \/ \E c \in Calls, error \in RejectionInputs : FetchRejects(c, error)
    \/ \E c \in Calls, body \in BodyInputs : JsonSettles(c, body)

Spec == Init /\ [][Next]_vars

(***************************************************************************)
(* Several calls in flight on one client: any call may take its next step  *)
(* at any time.  Each kind of input is represented by fewer values.        *)
(***************************************************************************)
SignedEnvelope ==
    Envelope(Str(<<"0", "0">>), Str(<<"d", "e", "s", "c">>), PaidData,
             HmacOfCanonical(PaidData, GatewayKey))

TamperedEnvelope ==
    Envelope(Str(<<"0", "0">>), Str(<<"d", "e", "s", "c">>), OpenData,
             HmacOfCanonical(PaidData, GatewayKey))

FailureEnvelope ==
    Envelope(Str(<<"2", "0">>), Str(<<"d", "e", "s", "c">>), Undefined, Undefined)

ConcurrentBodyInputs == {SignedEnvelope, TamperedEnvelope, FailureEnvelope}

ConcurrentWebhookBodyInputs ==
    {Literal(<<Prop(K_data, PaidData), Prop(K_signature, signature)>>) :
        signature \in {HmacOfCanonical(PaidData, GatewayKey), Str(<<"f", "f">>)}}

InitConcurrent ==
    /\ EncoderIdle
    /\ \E key \in {GatewayKey, OtherKey} :
          Constructor(ClientIdValue, ApiKeyValue, key, MaxCalls)

NextConcurrent ==
    \/ \E c \in Calls, paymentData \in {ShuffledPaymentData, PaymentDataWith({1, 2, 3, 5})} :
          createPaymentLink(c, paymentData)
    \/ \E c \in Calls, orderId \in {Num(42), Num(0)} : getPaymentLinkInformation(c, orderId)
    \/ \E c \in Calls : confirmWebhook(c, Str(<<"h">>))
    \/ \E c \in Calls : cancelPaymentLink(c, Str(<<"a", "7">>), Str(<<"x">>))
    \/ \E c \in Calls, webhookBody \in ConcurrentWebhookBodyInputs :
          verifyWebhookData(c, webhookBody)
    \/ \E c \in Calls : FetchResolves(c, Num(200))
    \/ \E c \in Calls : FetchRejects(c, NetworkError)
    \/ \E c \in Calls, body \in ConcurrentBodyInputs : JsonSettles(c, body)

SpecConcurrent == InitConcurrent /\ [][NextConcurrent]_vars

(***************************************************************************)
(* C7.  Canonical Encoder.                                                 *)
(***************************************************************************)
Orders(n) == {f \in [1..n -> 1..n] : \A i, j \in 1..n : f[i] = f[j] => i = j}

\* Every mapping with the entries of o, one per order of insertion.
Shuffles(o) ==
    {FromEntries([i \in 1..Len(o.props) |-> o.props[f[i]]], EmptyObject) :
        f \in Orders(Len(o.props))}

KeysAscending(o) ==
    \A i, j \in 1..Len(o.props) : i < j => StrLess(o.props[i].k, o.props[j].k)

\* C7: the key=value pairs of encode(sort(m)) appear in ascending
\* lexicographic order of their keys, for all key strings, and the output
\* is the same for every insertion order of m's entries.
C7_SortedForAllKeys ==
    queryString # Undefined =>
        /\ KeysAscending(sortedData)
        /\ \A m \in Shuffles(object) :
              Str(objectToQueryString(sortObjectByKey(m))) = queryString

(***************************************************************************)
(* The claims about the client.                                            *)
(***************************************************************************)
GatewayOperations == {"createPaymentLink", "getPaymentLinkInformation", "cancelPaymentLink"}

\* The call has ended after the gateway answered it with a JSON envelope.
Answered(c) ==
    /\ op[c] \in GatewayOperations
    /\ pc[c] = "done"
    /\ Len(transport[c]) = 2
    /\ transport[c][2].body.t = "object"

EnvelopeOf(c) == transport[c][2].body

\* signature is the HMAC digest of the canonical encoding of data under key.
Genuine(data, signature, key) ==
    data.t = "object" /\ signature = HmacOfCanonical(data, key)

IntegrityError(result) ==
    result.kind = "throw" /\ result.error.message = ERROR_MESSAGE_DATA_NOT_INTEGRITY

\* C1: createPaymentLink, getPaymentLinkInformation and cancelPaymentLink
\* return data to the caller only if the signature of the response is the
\* HMAC digest of the canonical encoding of data under checksumKey, for
\* every checksumKey the client can be constructed with.
C1_DataOnlyIfSigned ==
    \A c \in Calls :
        Answered(c) /\ outcome[c].kind = "return" =>
            /\ outcome[c].value = Get(EnvelopeOf(c), K_data)
            /\ Genuine(Get(EnvelopeOf(c), K_data), Get(EnvelopeOf(c), K_signature), checksumKey)

\* C2: when the code of the response is not "00", the error that reaches
\* the caller is a PayOSError that carries the code and the desc of the
\* response, whether or not data is present and correctly signed.
C2_GatewayErrorCarriesCode ==
    \A c \in Calls :
        Answered(c) /\ Get(EnvelopeOf(c), K_code) # Str(<<"0", "0">>) =>
            /\ outcome[c].kind = "throw"
            /\ outcome[c].error.class = "PayOSError"
            /\ outcome[c].error.code = Get(EnvelopeOf(c), K_code)
            /\ outcome[c].error.message = ErrorMessage(Get(EnvelopeOf(c), K_desc))

\* The HTTP status the gateway answered the call with, Undefined when the
\* transport failed without one.
AnsweredStatus(c) ==
    LET first == transport[c][1]
    IN  IF first.kind = "response" THEN first.status
        ELSE IF Truthy(Response(first.error)) THEN Status(Response(first.error))
        ELSE Status(first.error)

GatewayErrorWith(result, message) ==
    /\ result.kind = "throw"
    /\ result.error.class = "PayOSError"
    /\ result.error.message = message

\* C3: confirmWebhook with a non-empty webhookUrl raises a PayOSError for
\* WEBHOOK_URL_INVALID when the gateway answers with status 400, for
\* UNAUTHORIZED with 401, for INTERNAL_SERVER_ERROR with 5xx, a generic
\* error for any other failure, and returns webhookUrl only when the
\* request succeeded.
C3_WebhookStatusMapped ==
    \A c \in Calls :
        op[c] = "confirmWebhook" /\ pc[c] = "done" /\ transport[c] # <<>> =>
            LET status == AnsweredStatus(c)
            IN  /\ status = Num(400) =>
                      GatewayErrorWith(outcome[c], ERROR_MESSAGE_WEBHOOK_URL_INVALID)
                /\ status = Num(401) =>
                      GatewayErrorWith(outcome[c], ERROR_MESSAGE_UNAUTHORIZED)
                /\ StartsWith(StringOf(status), "5") =>
                      GatewayErrorWith(outcome[c], ERROR_MESSAGE_INTERNAL_SERVER_ERROR)
                /\ outcome[c].kind = "return" =>
                      /\ outcome[c].value = args[c][1]
                      /\ transport[c][1].kind = "response"
                      /\ StartsWith(StringOf(status), "2")
                /\ transport[c][1].kind = "rejected"
                   /\ status \notin {Num(400), Num(401)}
                   /\ ~StartsWith(StringOf(status), "5") =>
                      outcome[c].kind = "throw" /\ outcome[c].error.class = "Error"

\* C4: verifyWebhookData raises NO_DATA when data is missing; otherwise it
\* returns the data object unchanged if and only if signature is the HMAC
\* digest of the canonical encoding of data under checksumKey, and raises
\* the error with the fixed integrity message in every other case; it
\* issues no request.  For every webhook body and every checksumKey.
C4_WebhookDataIffSigned ==
    \A c \in Calls :
        op[c] = "verifyWebhookData" /\ pc[c] # "idle" =>
            LET data == Get(args[c][1], K_data)
                signature == Get(args[c][1], K_signature)
            IN  /\ pc[c] = "done"
                /\ wire[c] = <<>>
                /\ IF data \in {Undefined, Null}
                   THEN outcome[c] = Thrown(NewError(Str(ERROR_MESSAGE_NO_DATA)))
                   ELSE IF Genuine(data, signature, checksumKey)
                   THEN outcome[c] = Returned(data)
                   ELSE IntegrityError(outcome[c])

\* The required fields of the payment data that are absent or falsy.
Missing(paymentData) == {i \in 1..5 : ~Truthy(Get(paymentData, requiredFields[i]))}

\* The names of the required fields numbered in a set, separated by ", ".
Names(fields) ==
    Join(SelectSeq(requiredFields, LAMBDA k : \E i \in fields : requiredFields[i] = k),
         <<",", " ">>)

\* C5: createPaymentLink with a payload in which a required field is absent
\* or falsy raises an error whose message lists exactly the names of those
\* fields, and issues no request; with all five present it signs and sends
\* the request.
C5_RequiredFieldsListed ==
    \A c \in Calls :
        op[c] = "createPaymentLink" /\ args[c][1].t = "object" =>
            IF Missing(args[c][1]) # {}
            THEN /\ pc[c] = "done"
                 /\ wire[c] = <<>>
                 /\ outcome[c].kind = "throw"
                 /\ outcome[c].error.message = RequiredPrefix \o Names(Missing(args[c][1]))
            ELSE /\ Len(wire[c]) = 1
                 /\ wire[c][1].method = "POST"
                 /\ HasOwn(wire[c][1].body, K_signature)

\* A payload without orderCode is refused with a message that names it alone.
C5_Witness ==
    \E c \in Calls :
        /\ op[c] = "createPaymentLink"
        /\ args[c][1] = PaymentDataWith({1, 2, 3, 5})
        /\ outcome[c].kind = "throw"
        /\ outcome[c].error.message = RequiredPrefix \o K_orderCode

\* A positive integer or a non-empty string.
ValidOrderId(orderId) ==
    \/ orderId.t = "number" /\ ~orderId.nan /\ orderId.x2 > 0 /\ orderId.x2 % 2 = 0
    \/ orderId.t = "string" /\ Len(orderId.s) > 0

InvalidParameter(c) ==
    /\ pc[c] = "done"
    /\ wire[c] = <<>>
    /\ outcome[c] = Thrown(NewError(Str(ERROR_MESSAGE_INVALID_PARAMETER)))

\* C6: getPaymentLinkInformation and cancelPaymentLink raise
\* INVALID_PARAMETER without a request when orderId is not a positive
\* integer or a non-empty string, confirmWebhook does so for an empty
\* webhookUrl, and each issues its request otherwise.
C6_IdentifierValidatedFirst ==
    \A c \in Calls :
        /\ op[c] \in {"getPaymentLinkInformation", "cancelPaymentLink"} =>
              IF ValidOrderId(args[c][1]) THEN Len(wire[c]) = 1 ELSE InvalidParameter(c)
        /\ op[c] = "confirmWebhook" =>
              IF args[c][1].t = "string" /\ Len(args[c][1].s) > 0
              THEN Len(wire[c]) = 1 ELSE InvalidParameter(c)

\* An orderId that is a number but no integer is refused.
C6_Witness ==
    \E c \in Calls :
        /\ op[c] = "cancelPaymentLink"
        /\ args[c][1] = HalfNum(3)
        /\ InvalidParameter(c)

\* The string Signer.paymentRequest is to sign: the five fields in their
\* fixed order.
FiveFields(paymentData) ==
    Join([i \in 1..5 |->
            requiredFields[i] \o <<"=">> \o StringOf(Get(paymentData, requiredFields[i]))],
         <<"&">>)

\* C8: under a non-empty key the signature in the request body of
\* createPaymentLink is the digest of the five fields amount, cancelUrl,
\* description, orderCode, returnUrl as field=value joined by &, in that
\* order, whatever the key order and the other fields of the payload.
C8_FixedFieldOrderSigned ==
    \A c \in Calls :
        op[c] = "createPaymentLink" /\ args[c][1].t = "object" /\ checksumKey.s # <<>> =>
            /\ createSignatureOfPaymentRequest(args[c][1], checksumKey)
                  = Digest(checksumKey.s, FiveFields(args[c][1]))
            /\ wire[c] # <<>> =>
                  Get(wire[c][1].body, K_signature)
                      = Digest(checksumKey.s, FiveFields(args[c][1]))

\* A payload written in another order and with further fields was signed.
C8_Witness ==
    \E c \in Calls :
        /\ op[c] = "createPaymentLink"
        /\ args[c][1] = ShuffledPaymentData
        /\ ObjectKeys(args[c][1]) # requiredFields
        /\ checksumKey.s # <<>>
        /\ Len(wire[c]) = 1

HttpOperations ==
    {"createPaymentLink", "getPaymentLinkInformation", "cancelPaymentLink", "confirmWebhook"}

\* The arguments of the call pass the validation of its method.
ValidInput(c) ==
    CASE op[c] = "createPaymentLink" ->
            args[c][1].t = "object" /\ Missing(args[c][1]) = {}
      [] op[c] = "confirmWebhook" ->
            args[c][1].t = "string" /\ Len(args[c][1].s) > 0
      [] OTHER -> ValidOrderId(args[c][1])

C9_State ==
    \A c \in Calls :
        /\ Len(wire[c]) <= 1
        /\ op[c] \in HttpOperations => (Len(wire[c]) = 1 <=> ValidInput(c))
        /\ pc[c] = "done" <=> outcome[c].kind \in {"return", "throw"}
        /\ pc[c] # "done" <=> outcome[c] = Pending

C9_Step ==
    \A c \in Calls :
        /\ wire[c] # <<>> => wire'[c] = wire[c]
        /\ pc[c] = "done" => pc'[c] = "done" /\ outcome'[c] = outcome[c]

\* C9: a call of createPaymentLink, getPaymentLinkInformation,
\* cancelPaymentLink or confirmWebhook issues exactly one request when its
\* input is valid and none otherwise, never issues a second one, whatever
\* the transport or the gateway answers, and ends in exactly one outcome,
\* which then stands.
C9_OneRequestOneOutcome == []C9_State /\ [][C9_Step]_vars

\* A call whose only request failed in the transport has ended with an error.
C9_Witness ==
    \E c \in Calls :
        /\ op[c] \in HttpOperations
        /\ pc[c] = "done"
        /\ Len(wire[c]) = 1
        /\ transport[c][1].kind = "rejected"
        /\ outcome[c].kind = "throw"

\* What the call returns or throws when it runs from start to end with
\* nothing else in between, on a client that holds the credentials cred,
\* given its arguments and what the transport delivered to it.
RunAlone(method, arguments, delivered, cred) ==
    LET rejected ==
            CASE method = "createPaymentLink" -> PaymentDataRejected(arguments[1])
              [] method = "confirmWebhook" -> WebhookUrlRejected(arguments[1])
              [] method = "verifyWebhookData" -> FALSE
              [] OTHER -> OrderIdRejected(arguments[1])
    IN  CASE method = "verifyWebhookData" ->
                verifyWebhookDataResult(arguments[1], cred.checksumKey)
          [] rejected /\ method = "createPaymentLink" ->
                Thrown(PaymentDataError(arguments[1]))
          [] rejected /\ method # "createPaymentLink" ->
                Thrown(NewError(Str(ERROR_MESSAGE_INVALID_PARAMETER)))
          [] ~rejected /\ delivered[1].kind = "rejected" ->
                IF method = "confirmWebhook" THEN confirmWebhookCatch(delivered[1].error)
                ELSE CatchAndWrap(delivered[1].error)
          [] ~rejected /\ delivered[1].kind = "response" ->
                IF method = "confirmWebhook" THEN Returned(arguments[1])
                ELSE TryBody(method = "createPaymentLink", delivered[2].body,
                             cred.checksumKey)

\* C10: under any interleaving of the calls on one client the credentials
\* keep the values given at construction, and what each call returns or
\* throws is what it would have alone with the same arguments and the same
\* answer: it depends on no other call.
C10_CallsIndependent ==
    /\ clientId = constructed.clientId
    /\ apiKey = constructed.apiKey
    /\ checksumKey = constructed.checksumKey
    /\ \A c \in Calls :
          pc[c] = "done" =>
              outcome[c] = RunAlone(op[c], args[c], transport[c], constructed)

\* Two calls that were answered differently have ended differently, and a
\* third step of another call is still to come.
C10_Witness ==
    \E c, d \in Calls :
        /\ pc[c] = "done" /\ pc[d] = "done"
        /\ Len(transport[c]) = 2 /\ Len(transport[d]) = 2
        /\ transport[c] # transport[d]
        /\ outcome[c].kind = "return"
        /\ outcome[d].kind = "throw"

====
